---- MODULE Spec2Model ----
(***************************************************************************)
(* Wizard card game: deck, rules engine, round/trick control loop and the  *)
(* determinizing MCTS policy, modelled from game/deck.py, game/rules.py,   *)
(* game/simulator.py and agents/mcts_agent.py.                             *)
(*                                                                         *)
(* Seats are 0-based as in the source; Python lists are sequences, lists   *)
(* indexed by seat are functions over 0..num_players-1.  Python's None is  *)
(* NoSuit / NoCard / NoBid.                                                *)
(***************************************************************************)
EXTENDS Integers, Sequences, FiniteSets, TLC

VARIABLES
    num_players,   \* WizardGame.num_players
    scores,        \* WizardGame.scores (cumulative, survives rounds)
    state,         \* WizardGame.state (GameState of the round in progress)
    pc,            \* position of the control loop
    round_counter, \* play_full_game: last round_num handed to _play_round
    bidder,        \* _bidding_phase: player_idx of the seat asked next
    trick_num,     \* _play_round: number of completed calls of _play_trick
    turn,          \* _play_trick: loop index i of the seat asked next
    led_suit,      \* _play_trick: local led_suit
    bid,           \* _bidding_phase: the bid the policy returned last
    card,          \* _play_trick: the card the policy returned last
    error,         \* the exception that ended the run, or "none"
    call,          \* a direct call of a rules function: arguments and result
    num_simulations,      \* MCTSAgent.num_simulations
    num_determinizations, \* MCTSAgent.num_determinizations
    s_pc,          \* position of MCTSAgent.play
    s_player,      \* play: argument player_idx
    s_valid,       \* play: argument valid_cards (the caller's list)
    action_values, \* play: dict card -> summed value, in insertion order
    det_count,     \* play: determinizations completed
    det_state,     \* play: determinized_state
    tree,          \* _mcts_search: the nodes, root first; parent and children by index
    sim_count,     \* _mcts_search: simulations completed
    reported,      \* what _mcts_search returned, one (best_card, value) per determinization
    s_result,      \* what play returned or raised
    rng,           \* the seeded random stream: the shuffles drawn, and the position
    run,           \* which of two runs of play from the same seed this is
    first_result   \* what the first run returned or raised

gameVars == <<num_players, scores, state, pc, round_counter, bidder,
              trick_num, turn, led_suit, bid, card, error>>

searchVars == <<num_simulations, num_determinizations, s_pc, s_player, s_valid,
                action_values, det_count, det_state, tree, sim_count, reported,
                s_result, rng, run, first_result>>

vars == <<gameVars, call, searchVars>>

----------------------------------------------------------------------------
(* Bounds of the exploration *)

\* seats: MinPlayers .. MaxSeats
MaxSeats == 3
\* play_full_game is followed for rounds 1 .. MaxRound
MaxRound == 2
\* random.shuffle outcomes: offsets 0 .. MaxOffset of each stride
MaxOffset == 7
\* random.shuffle outcomes: the deck cut 1 .. MaxCut cards from its end
MaxCut == 3
\* direct calls of trick_winner: at most MaxPlays plays, ranks 1 .. MaxCallRank
MaxPlays == 3
MaxCallRank == 2
\* direct calls of valid_plays: hands of at most MaxHand cards
MaxHand == 3
\* direct calls of score_round: bid and tricks_won in 0 .. MaxScoreArg
MaxScoreArg == 9
\* MCTSAgent(num_simulations in 1 .. MaxSims, num_determinizations in 1 .. MaxDets)
MaxSims == 4
MaxDets == 2
\* shuffles of the determinizer: offsets 0 .. MaxSeedOffset of each stride
MaxSeedOffset == 0

----------------------------------------------------------------------------
(* Sequence helpers (Python list operations) *)

InSeq(x, s) == \E i \in 1..Len(s) : s[i] = x

\* list.remove(x): drops the first element equal to x
RemoveFirst(s, x) ==
    LET i == CHOOSE j \in 1..Len(s) : s[j] = x /\ \A k \in 1..(j-1) : s[k] # x
    IN  SubSeq(s, 1, i-1) \o SubSeq(s, i+1, Len(s))

RECURSIVE SumOver(_, _)
SumOver(f, S) ==
    IF S = {} THEN 0
    ELSE LET x == CHOOSE y \in S : TRUE IN f[x] + SumOver(f, S \ {x})

RECURSIVE GCD(_, _)
GCD(a, b) == IF b = 0 THEN a ELSE GCD(b, a % b)

Abs(x) == IF x < 0 THEN -x ELSE x

----------------------------------------------------------------------------
(* game/deck.py *)

HEARTS   == "H"
DIAMONDS == "D"
CLUBS    == "C"
SPADES   == "S"
WIZARD   == "W"
JESTER   == "J"
NoSuit   == "None"

Card(s, r) == [suit |-> s, rank |-> r]
NoCard == Card(NoSuit, 0)

NumJesters == 4
NumWizards == 4
NumRanks == 13
OrdinarySuits == <<HEARTS, DIAMONDS, CLUBS, SPADES>>

create_standard_deck ==
    [i \in 1..NumJesters |-> Card(JESTER, 0)]
    \o [i \in 1..NumWizards |-> Card(WIZARD, 0)]
    \o [i \in 1..(Len(OrdinarySuits) * NumRanks) |->
            Card(OrdinarySuits[((i - 1) \div NumRanks) + 1], ((i - 1) % NumRanks) + 1)]

\* random.shuffle: the outcomes explored are the permutations
\* i |-> (a*i + b) mod Len, one per key <<a, b>> with a coprime to Len
Strides == {7, 11, 59}
ShuffleKeys(len) ==
    IF len <= 1 THEN {<<1, 0>>}
    ELSE {k \in (Strides \X (0..MaxOffset)) : GCD(k[1], len) = 1 /\ k[2] < len}

\* the shuffles that only cut the deck: the last c cards come first
CutKeys(len) == {<<1, len - c>> : c \in 1..MaxCut}

Shuffle(s, key) ==
    [i \in 1..Len(s) |-> s[((key[1] * (i - 1) + key[2]) % Len(s)) + 1]]

\* mutant: the trump card is turned from the top of the shuffled deck
shuffle_and_deal_TrumpFromTop(n, r, key) ==
    LET deck == Shuffle(create_standard_deck, key)
        card_idx == n * r
    IN  [hands |-> [p \in 0..(n-1) |-> [k \in 1..r |-> deck[(k - 1) * n + p + 1]]],
         trump_card |-> deck[1],
         remaining |-> SubSeq(deck, card_idx + 2, Len(deck))]

\* mutant: each player is dealt a block of consecutive cards
shuffle_and_deal_Blocks(n, r, key) ==
    LET deck == Shuffle(create_standard_deck, key)
        card_idx == n * r
    IN  [hands |-> [p \in 0..(n-1) |-> [k \in 1..r |-> deck[p * r + k]]],
         trump_card |-> IF card_idx < Len(deck) THEN deck[card_idx + 1] ELSE NoCard,
         remaining |-> SubSeq(deck, card_idx + 2, Len(deck))]

shuffle_and_deal(n, r, key) ==
    LET deck == Shuffle(create_standard_deck, key)
        card_idx == n * r
    IN  [hands |-> [p \in 0..(n-1) |-> [k \in 1..r |-> deck[(k - 1) * n + p + 1]]],
         trump_card |-> IF card_idx < Len(deck) THEN deck[card_idx + 1] ELSE NoCard,
         remaining |-> SubSeq(deck, card_idx + 2, Len(deck))]

----------------------------------------------------------------------------
(* game/rules.py *)

get_trump_suit(trump_card) ==
    IF trump_card = NoCard THEN NoSuit
    ELSE IF trump_card.suit = JESTER THEN NoSuit
    ELSE IF trump_card.suit = WIZARD THEN HEARTS
    ELSE trump_card.suit

\* mutant: Wizards and Jesters are left out when the suit can be followed
get_valid_plays_SuitOnly(hand, led) ==
    IF led = NoSuit THEN hand
    ELSE LET IsLed(c) == c.suit = led
             same_suit == SelectSeq(hand, IsLed)
         IN  IF same_suit # <<>> THEN same_suit ELSE hand

get_valid_plays(hand, led) ==
    IF led = NoSuit THEN hand
    ELSE LET IsLed(c) == c.suit = led
             IsSpecial(c) == c.suit \in {WIZARD, JESTER}
             same_suit == SelectSeq(hand, IsLed)
         IN  IF same_suit # <<>> THEN same_suit \o SelectSeq(hand, IsSpecial)
             ELSE hand

\* max(plays, key=rank): the first entry of the highest rank
MaxByRank(plays) ==
    LET i == CHOOSE j \in 1..Len(plays) :
                /\ \A k \in 1..Len(plays) : plays[k][2].rank <= plays[j][2].rank
                /\ \A k \in 1..(j-1) : plays[k][2].rank < plays[j][2].rank
    IN  plays[i]

\* mutant: the last Wizard wins instead of the first
determine_trick_winner_LastWizard(cards_played, led, trump) ==
    LET IsWizard(pc_) == pc_[2].suit = WIZARD
        NotJester(pc_) == pc_[2].suit # JESTER
        IsTrump(pc_) == pc_[2].suit = trump
        IsLed(pc_) == pc_[2].suit = led
        wizards == SelectSeq(cards_played, IsWizard)
        non_jesters == SelectSeq(cards_played, NotJester)
        trumps == SelectSeq(non_jesters, IsTrump)
        led_cards == SelectSeq(non_jesters, IsLed)
    IN  IF wizards # <<>> THEN wizards[Len(wizards)][1]
        ELSE IF \A i \in 1..Len(cards_played) : cards_played[i][2].suit = JESTER
             THEN cards_played[1][1]
        ELSE IF trump # NoSuit /\ trumps # <<>> THEN MaxByRank(trumps)[1]
        ELSE IF led_cards # <<>> THEN MaxByRank(led_cards)[1]
        ELSE cards_played[1][1]

\* mutant: the led suit is looked at before the trump suit
determine_trick_winner_LedFirst(cards_played, led, trump) ==
    LET IsWizard(pc_) == pc_[2].suit = WIZARD
        NotJester(pc_) == pc_[2].suit # JESTER
        IsTrump(pc_) == pc_[2].suit = trump
        IsLed(pc_) == pc_[2].suit = led
        wizards == SelectSeq(cards_played, IsWizard)
        non_jesters == SelectSeq(cards_played, NotJester)
        trumps == SelectSeq(non_jesters, IsTrump)
        led_cards == SelectSeq(non_jesters, IsLed)
    IN  IF wizards # <<>> THEN wizards[1][1]
        ELSE IF \A i \in 1..Len(cards_played) : cards_played[i][2].suit = JESTER
             THEN cards_played[1][1]
        ELSE IF led_cards # <<>> THEN MaxByRank(led_cards)[1]
        ELSE IF trump # NoSuit /\ trumps # <<>> THEN MaxByRank(trumps)[1]
        ELSE cards_played[1][1]

\* mutant: among Jesters only, the last one wins
determine_trick_winner_LastJester(cards_played, led, trump) ==
    LET IsWizard(pc_) == pc_[2].suit = WIZARD
        NotJester(pc_) == pc_[2].suit # JESTER
        IsTrump(pc_) == pc_[2].suit = trump
        IsLed(pc_) == pc_[2].suit = led
        wizards == SelectSeq(cards_played, IsWizard)
        non_jesters == SelectSeq(cards_played, NotJester)
        trumps == SelectSeq(non_jesters, IsTrump)
        led_cards == SelectSeq(non_jesters, IsLed)
    IN  IF wizards # <<>> THEN wizards[1][1]
        ELSE IF \A i \in 1..Len(cards_played) : cards_played[i][2].suit = JESTER
             THEN cards_played[Len(cards_played)][1]
        ELSE IF trump # NoSuit /\ trumps # <<>> THEN MaxByRank(trumps)[1]
        ELSE IF led_cards # <<>> THEN MaxByRank(led_cards)[1]
        ELSE cards_played[1][1]

determine_trick_winner(cards_played, led, trump) ==
    LET IsWizard(pc_) == pc_[2].suit = WIZARD
        NotJester(pc_) == pc_[2].suit # JESTER
        IsTrump(pc_) == pc_[2].suit = trump
        IsLed(pc_) == pc_[2].suit = led
        wizards == SelectSeq(cards_played, IsWizard)
        non_jesters == SelectSeq(cards_played, NotJester)
        trumps == SelectSeq(non_jesters, IsTrump)
        led_cards == SelectSeq(non_jesters, IsLed)
    IN  IF wizards # <<>> THEN wizards[1][1]
        ELSE IF \A i \in 1..Len(cards_played) : cards_played[i][2].suit = JESTER
             THEN cards_played[1][1]
        ELSE IF trump # NoSuit /\ trumps # <<>> THEN MaxByRank(trumps)[1]
        ELSE IF led_cards # <<>> THEN MaxByRank(led_cards)[1]
        ELSE cards_played[1][1]

\* mutant: the difference is taken without abs
score_round_Signed(b, won) ==
    IF b = won THEN 20 + 10 * b ELSE -10 * (b - won)

score_round(b, won) ==
    IF b = won THEN 20 + 10 * b ELSE -10 * Abs(b - won)

----------------------------------------------------------------------------
(* game/simulator.py *)

MinPlayers == 3
MaxPlayers == 6
DeckTotal == 60
NoBid == -1

Seats == 0..(num_players - 1)

GameState(n, r, hands, trump_card, trump, bids, won, sc, trick, leader) ==
    [num_players |-> n, round_num |-> r, hands |-> hands,
     trump_card |-> trump_card, trump_suit |-> trump, bids |-> bids,
     tricks_won |-> won, scores |-> sc, current_trick |-> trick,
     trick_leader |-> leader]

\* self.state = None
NoState == GameState(0, 0, <<>>, NoCard, NoSuit, <<>>, <<>>, <<>>, <<>>, 0)

\* mutant: one round fewer than the deck allows
total_rounds_OneLess == (DeckTotal \div num_players) - 1

total_rounds == DeckTotal \div num_players

\* play_full_game, rounds 1 .. k: the cumulative scores when every seat bid 0
\* in each of those rounds and seat 0 took every trick
RECURSIVE ScoresAfterRounds(_, _)
ScoresAfterRounds(k, n) ==
    IF k = 0 THEN [p \in 0..(n-1) |-> 0]
    ELSE [p \in 0..(n-1) |->
            ScoresAfterRounds(k - 1, n)[p] + score_round(0, IF p = 0 THEN k ELSE 0)]

\* no rules function is being called directly
NoCall == [op |-> "none", plays |-> <<>>, led |-> NoSuit, trump |-> NoSuit,
           done |-> FALSE, result |-> 0]

\* no result yet
NoResult == [kind |-> "none", card |-> NoCard, err |-> "none"]

\* no search policy is deciding
SearchIdle ==
    /\ s_pc = "idle"
    /\ s_player = 0
    /\ s_valid = <<>>
    /\ action_values = <<>>
    /\ det_count = 0
    /\ det_state = NoState
    /\ tree = <<>>
    /\ sim_count = 0
    /\ reported = <<>>
    /\ s_result = NoResult
    /\ rng = [seed |-> <<>>, pos |-> 1]
    /\ run = 0
    /\ first_result = NoResult

\* WizardGame.__init__, and play_full_game about to hand round
\* round_counter + 1 to _play_round
Init ==
    /\ num_players \in {n \in MinPlayers..MaxPlayers : n <= MaxSeats}
    /\ round_counter \in 0..(MaxRound - 1)
    /\ scores = ScoresAfterRounds(round_counter, num_players)
    /\ state = NoState
    /\ pc = "new"
    /\ bidder = 0
    /\ trick_num = 0
    /\ turn = 0
    /\ led_suit = NoSuit
    /\ bid = NoBid
    /\ card = NoCard
    /\ error = "none"
    /\ call = NoCall
    /\ num_simulations = 1
    /\ num_determinizations = 1
    /\ SearchIdle

\* play_full_game hands the next round_num to _play_round, which deals and
\* builds the round state, up to the first bid request of _bidding_phase
Deal(keys) ==
    /\ pc = "new"
    /\ round_counter < total_rounds
    /\ \E key \in keys :
         LET r == round_counter + 1
             d == shuffle_and_deal(num_players, r, key)
         IN  state' = GameState(num_players, r, d.hands, d.trump_card,
                                get_trump_suit(d.trump_card),
                                [p \in Seats |-> NoBid], [p \in Seats |-> 0],
                                scores, <<>>, 0)
    /\ round_counter' = round_counter + 1
    /\ pc' = "bid"
    /\ bidder' = 0
    /\ trick_num' = 0
    /\ turn' = 0
    /\ led_suit' = NoSuit
    /\ bid' = NoBid
    /\ card' = NoCard
    /\ UNCHANGED <<num_players, scores, error, call, searchVars>>

PlayRound ==
    Deal(ShuffleKeys(Len(create_standard_deck)) \cup CutKeys(Len(create_standard_deck)))

\* mutant: the upper end of the range is not checked
BidInRange_NoUpper(b, r) == 0 <= b

\* the validation of _bidding_phase
BidInRange(b, r) == 0 <= b /\ b <= r

\* the bids a policy may return: both ends of the range and one beyond each
BidChoices(r) == {-1, 0, r, r + 1}

\* mutant: the whole bids list is handed over
BidArgs_AllBids(s, i) ==
    [hand |-> s.hands[i], trump_suit |-> s.trump_suit, round_num |-> s.round_num,
     player_idx |-> i, bids_so_far |-> [k \in 1..s.num_players |-> s.bids[k - 1]]]

\* _bidding_phase: the arguments of seat i's bid() call; bids_so_far is
\* self.state.bids[:player_idx]
BidArgs(s, i) ==
    [hand |-> s.hands[i], trump_suit |-> s.trump_suit, round_num |-> s.round_num,
     player_idx |-> i, bids_so_far |-> [k \in 1..i |-> s.bids[k - 1]]]

\* _bidding_phase: one seat's bid() call, its validation and recording; after
\* the last seat the first _play_trick starts (current_trick = [], no led suit)
Bid ==
    /\ pc = "bid"
    /\ \E b \in BidChoices(state.round_num) :
         /\ bid' = b
         /\ IF ~BidInRange(b, state.round_num)
            THEN /\ pc' = "error"
                 /\ error' = "invalid_bid"
                 /\ UNCHANGED <<state, bidder, turn, led_suit>>
            ELSE /\ error' = error
                 /\ IF bidder + 1 < num_players
                    THEN /\ state' = [state EXCEPT !.bids[bidder] = b]
                         /\ bidder' = bidder + 1
                         /\ pc' = "bid"
                         /\ UNCHANGED <<turn, led_suit>>
                    ELSE /\ state' = [state EXCEPT !.bids[bidder] = b,
                                                   !.current_trick = <<>>]
                         /\ bidder' = bidder + 1
                         /\ pc' = "play"
                         /\ turn' = 0
                         /\ led_suit' = NoSuit
    /\ UNCHANGED <<num_players, scores, round_counter, trick_num, card, call, searchVars>>

\* mutant: the seats are asked from seat 0 on, whoever leads
SeatOfTurn_FromZero(leader, i, n) == i % n

\* _play_trick: the seat asked at loop index i
SeatOfTurn(leader, i, n) == (leader + i) % n

\* mutant: the returned card is not validated
IsValidPlay_Unchecked(c, valid_cards) == TRUE

\* _play_trick: the validation of the returned card
IsValidPlay(c, valid_cards) == InSeq(c, valid_cards)

\* _play_trick: the led suit after the card of loop index i
NextLedSuit(led, i, c) ==
    IF i = 0 /\ c.suit \notin {JESTER, WIZARD} THEN c.suit
    ELSE IF i = 1 /\ led = NoSuit /\ c.suit \notin {JESTER, WIZARD} THEN c.suit
    ELSE led

\* mutant: the winner leads next but the trick is not counted
ResolveTrick_NoCount(s, winner) == [s EXCEPT !.trick_leader = winner]

\* mutant: the trick is counted for the seat that led it
ResolveTrick_LeaderCounted(s, winner) ==
    [s EXCEPT !.tricks_won[s.trick_leader] = @ + 1, !.trick_leader = winner]

\* _play_trick: the winner's trick count goes up and the winner leads next
ResolveTrick(s, winner) ==
    [s EXCEPT !.tricks_won[winner] = @ + 1, !.trick_leader = winner]

\* mutant: the round score replaces the cumulative score
ScoresAfterRound_Overwrite(sc, s) ==
    [p \in DOMAIN sc |-> score_round(s.bids[p], s.tricks_won[p])]

\* _score_round
ScoresAfterRound(sc, s) ==
    [p \in DOMAIN sc |-> sc[p] + score_round(s.bids[p], s.tricks_won[p])]

\* the cards a policy may return: every card of the hand, legal or not, and
\* one card the seat does not hold
CardChoices(hand) ==
    LET deck == create_standard_deck
    IN  {hand[i] : i \in 1..Len(hand)}
        \cup {deck[i] : i \in {j \in 1..Len(deck) :
                                  /\ ~InSeq(deck[j], hand)
                                  /\ \A k \in 1..(j - 1) : InSeq(deck[k], hand)}}

\* _play_trick: one seat's play() call, its validation, the removal from the
\* hand and the append to current_trick; after the last seat of the trick the
\* winner is determined, and then either the next _play_trick starts or, after
\* the last trick, _score_round runs and _play_round returns
Play ==
    /\ pc = "play"
    /\ \E c \in CardChoices(state.hands[SeatOfTurn(state.trick_leader, turn, num_players)]) :
         LET player_idx == SeatOfTurn(state.trick_leader, turn, num_players)
             hand == state.hands[player_idx]
             valid_cards == get_valid_plays(hand, led_suit)
             trick == Append(state.current_trick, <<player_idx, c>>)
             led == NextLedSuit(led_suit, turn, c)
             winner == determine_trick_winner(trick, led, state.trump_suit)
             played == [state EXCEPT !.hands[player_idx] = RemoveFirst(hand, c),
                                     !.current_trick = trick]
             resolved == ResolveTrick(played, winner)
         IN  /\ card' = c
             /\ IF ~IsValidPlay(c, valid_cards)
                THEN /\ pc' = "error"
                     /\ error' = "invalid_card"
                     /\ UNCHANGED <<state, scores, trick_num, turn, led_suit>>
                ELSE IF ~InSeq(c, hand)
                THEN /\ pc' = "error"
                     /\ error' = "remove_missing"
                     /\ UNCHANGED <<state, scores, trick_num, turn, led_suit>>
                ELSE IF turn + 1 < num_players
                THEN /\ state' = played
                     /\ turn' = turn + 1
                     /\ led_suit' = led
                     /\ UNCHANGED <<pc, error, scores, trick_num>>
                ELSE IF trick_num + 1 < state.round_num
                THEN /\ state' = [resolved EXCEPT !.current_trick = <<>>]
                     /\ trick_num' = trick_num + 1
                     /\ turn' = 0
                     /\ led_suit' = NoSuit
                     /\ UNCHANGED <<pc, error, scores>>
                ELSE /\ state' = resolved
                     /\ trick_num' = trick_num + 1
                     /\ turn' = turn + 1
                     /\ led_suit' = led
                     /\ scores' = ScoresAfterRound(scores, resolved)
                     /\ pc' = "round_done"
                     /\ error' = error
    /\ UNCHANGED <<num_players, round_counter, bidder, bid, call, searchVars>>

Next == PlayRound \/ Bid \/ Play

Spec == Init /\ [][Next]_vars

----------------------------------------------------------------------------
(* agents/mcts_agent.py: MCTSNode *)

\* a value as a fraction num / den (Python float arithmetic on sums of rewards)
Frac(n, d) == [num |-> n, den |-> d]
FracAdd(a, b) == Frac(a.num * b.den + b.num * a.den, a.den * b.den)
FracLess(a, b) == a.num * b.den < b.num * a.den

\* GameState.copy: a new state whose lists are copies
CopyState(s) ==
    GameState(s.num_players, s.round_num, s.hands, s.trump_card, s.trump_suit,
              s.bids, s.tricks_won, s.scores, s.current_trick, s.trick_leader)

\* parent = 0 is None
MCTSNode(st, parent, action, untried, p) ==
    [state |-> st, parent |-> parent, action |-> action, children |-> <<>>,
     visits |-> 0, total_value |-> 0, untried_actions |-> untried, player_idx |-> p]

\* MCTSNode.value
NodeValue(node) ==
    IF node.visits = 0 THEN Frac(0, 1) ELSE Frac(node.total_value, node.visits)

is_fully_expanded(node) == Len(node.untried_actions) = 0

is_terminal(node) ==
    \A p \in DOMAIN node.state.hands : Len(node.state.hands[p]) = 0

\* exploration_constant = 1.41, in hundredths
ExplorationCentis == 141
\* float('inf') on the scale of UCB1Milli
Infinity == 1000000000

\* math.log(n) in ten-thousandths, n = 1 .. 16
LnTable == <<0, 6931, 10986, 13863, 16094, 17918, 19459, 20794,
             21972, 23026, 23979, 24849, 25649, 26391, 27081, 27726>>

RECURSIVE ISqrtIn(_, _, _)
ISqrtIn(x, lo, hi) ==
    IF lo >= hi THEN lo
    ELSE LET mid == (lo + hi + 1) \div 2
         IN  IF mid * mid <= x THEN ISqrtIn(x, mid, hi) ELSE ISqrtIn(x, lo, mid - 1)

\* math.sqrt in whole units of the argument's square root
ISqrt(x) == ISqrtIn(x, 0, 46340)

\* MCTSNode.ucb1 in thousandths: value + c * sqrt(log(parent.visits) / visits)
UCB1Milli(node, parent_visits) ==
    IF node.visits = 0 THEN Infinity
    ELSE ((node.total_value * 1000) \div node.visits)
         + ISqrt((ExplorationCentis * ExplorationCentis * LnTable[parent_visits])
                 \div (100 * node.visits))

----------------------------------------------------------------------------
(* agents/mcts_agent.py: MCTSAgent *)

\* Python slice s[a:b], 0-based, clipped to the list
Slice(s, a, b) == SubSeq(s, a + 1, IF b < Len(s) THEN b ELSE Len(s))

SetOfSeq(s) == {s[i] : i \in 1..Len(s)}

\* _determinize_state: known_cards
KnownCards(s, p) ==
    SetOfSeq(s.hands[p])
    \cup UNION {SetOfSeq(s.hands[q]) : q \in {x \in DOMAIN s.hands : s.hands[x] # s.hands[p]}}
    \cup {s.current_trick[i][2] : i \in 1..Len(s.current_trick)}
    \cup (IF s.trump_card # NoCard THEN {s.trump_card} ELSE {})

\* _determinize_state: unknown_cards before the shuffle
UnknownCards(s, p) ==
    LET known == KnownCards(s, p)
        NotKnown(c) == c \notin known
    IN  SelectSeq(create_standard_deck, NotKnown)

\* _determinize_state: the start of seat i's slice of the shuffled cards
RECURSIVE SliceStart(_, _, _)
SliceStart(s, p, i) ==
    IF i = 0 THEN 0
    ELSE SliceStart(s, p, i - 1) + (IF i - 1 # p THEN Len(s.hands[i - 1]) ELSE 0)

\* mutant: the deciding seat's hand is redistributed like the others
determinize_state_AllSeats(s, p, key) ==
    LET det == CopyState(s)
        unknown == Shuffle(UnknownCards(s, p), key)
        Start(i) == SliceStart(s, s.num_players, i)
    IN  [det EXCEPT !.hands =
            [i \in DOMAIN s.hands |-> Slice(unknown, Start(i), Start(i) + Len(s.hands[i]))]]

determinize_state(s, p, key) ==
    LET det == CopyState(s)
        unknown == Shuffle(UnknownCards(s, p), key)
        Start(i) == SliceStart(s, p, i)
    IN  [det EXCEPT !.hands =
            [i \in DOMAIN s.hands |->
                IF i # p THEN Slice(unknown, Start(i), Start(i) + Len(s.hands[i]))
                ELSE det.hands[i]]]

\* mutant: the played card also counts as a trick won by the seat
apply_action_CountsTrick(s, c, p) ==
    IF InSeq(c, s.hands[p])
    THEN [s EXCEPT !.hands[p] = RemoveFirst(@, c), !.tricks_won[p] = @ + 1]
    ELSE s

\* _apply_action
apply_action(s, c, p) ==
    IF InSeq(c, s.hands[p]) THEN [s EXCEPT !.hands[p] = RemoveFirst(@, c)] ELSE s

\* _get_valid_actions
get_valid_actions(s, p) == s.hands[p]

\* _simulate
simulate(s, p) ==
    IF s.bids[p] = s.tricks_won[p] THEN 20 + 10 * s.bids[p]
    ELSE -10 * Abs(s.bids[p] - s.tricks_won[p])

\* max(seq, key): the index of the first entry with the largest key
FirstMaxIndex(keys) ==
    CHOOSE j \in 1..Len(keys) :
        /\ \A k \in 1..Len(keys) : keys[k] <= keys[j]
        /\ \A k \in 1..(j - 1) : keys[k] < keys[j]

\* _select_child: the index of the child with the highest UCB1, the first of equals
select_child(t, ni) ==
    LET kids == t[ni].children
    IN  kids[FirstMaxIndex([k \in 1..Len(kids) |-> UCB1Milli(t[kids[k]], t[ni].visits)])]

\* _select_child raises: max() of no children, or math.log(0)
SelectError(t, ni) ==
    IF t[ni].children = <<>> THEN "max_empty"
    ELSE IF t[ni].visits = 0
            /\ \E k \in 1..Len(t[ni].children) : t[t[ni].children[k]].visits # 0
         THEN "math_domain"
    ELSE "none"

\* _mcts_search, selection: descend while the node is fully expanded and not
\* terminal, applying each chosen child's action to the simulation state
RECURSIVE Selection(_, _, _)
Selection(t, ni, sim) ==
    IF ~is_terminal(t[ni]) /\ is_fully_expanded(t[ni])
    THEN IF SelectError(t, ni) # "none"
         THEN [err |-> SelectError(t, ni), node |-> ni, sim |-> sim]
         ELSE LET c == select_child(t, ni)
              IN  Selection(t, c,
                            IF t[c].action # NoCard
                            THEN apply_action(sim, t[c].action, t[c].player_idx)
                            ELSE sim)
    ELSE [err |-> "none", node |-> ni, sim |-> sim]

\* mutant: the action stays in untried_actions after the child is attached
expand_NoPop(t, ni, sim) ==
    LET node == t[ni]
        action == node.untried_actions[Len(node.untried_actions)]
        child_state == apply_action(CopyState(sim), action, node.player_idx)
        child == MCTSNode(child_state, ni, action,
                          get_valid_actions(child_state, node.player_idx),
                          node.player_idx)
    IN  Append([t EXCEPT ![ni].children = Append(@, Len(t) + 1)], child)

\* _expand: pop the last untried action and attach the child
expand(t, ni, sim) ==
    LET node == t[ni]
        action == node.untried_actions[Len(node.untried_actions)]
        child_state == apply_action(CopyState(sim), action, node.player_idx)
        child == MCTSNode(child_state, ni, action,
                          get_valid_actions(child_state, node.player_idx),
                          node.player_idx)
    IN  Append([t EXCEPT ![ni].untried_actions = SubSeq(@, 1, Len(@) - 1),
                         ![ni].children = Append(@, Len(t) + 1)],
               child)

\* mutant: the reached node is skipped; its parent, its grandparent and the
\* root are updated
backpropagate_SkipLeaf(t, ni, value) ==
    IF ni = 0 \/ t[ni].parent = 0 THEN t
    ELSE LET up == t[ni].parent
         IN  [i \in 1..Len(t) |->
                IF i = up \/ (t[up].parent # 0 /\ i = t[up].parent)
                   \/ i = 1
                THEN [t[i] EXCEPT !.visits = @ + 1, !.total_value = @ + value]
                ELSE t[i]]

\* mutant: only the reached node is updated, its ancestors are not
backpropagate_NodeOnly(t, ni, value) ==
    IF ni = 0 THEN t
    ELSE [t EXCEPT ![ni].visits = @ + 1, ![ni].total_value = @ + value]

\* _backpropagate
RECURSIVE backpropagate(_, _, _)
backpropagate(t, ni, value) ==
    IF ni = 0 THEN t
    ELSE backpropagate([t EXCEPT ![ni].visits = @ + 1,
                                 ![ni].total_value = @ + value],
                       t[ni].parent, value)

\* _mcts_search: the root node
RootTree(s, p, valid_cards) ==
    <<MCTSNode(CopyState(s), 0, NoCard, valid_cards, p)>>

\* _mcts_search: one iteration of the simulation loop
Simulation(t, s, p) ==
    LET sel == Selection(t, 1, CopyState(s))
        grow == ~is_terminal(t[sel.node]) /\ ~is_fully_expanded(t[sel.node])
        t2 == IF grow THEN expand(t, sel.node, sel.sim) ELSE t
        node == IF grow THEN Len(t2) ELSE sel.node
        sim == IF grow /\ t2[node].action # NoCard
               THEN apply_action(sel.sim, t2[node].action, t2[node].player_idx)
               ELSE sel.sim
    IN  IF sel.err # "none" THEN [err |-> sel.err, tree |-> t, node |-> sel.node, value |-> 0]
        ELSE [err |-> "none", tree |-> backpropagate(t2, node, simulate(sim, p)),
              node |-> node, value |-> simulate(sim, p)]

\* mutant: the least visited root child is reported
BestOfRoot_LeastVisited(t, valid_cards) ==
    LET kids == t[1].children
        best == kids[FirstMaxIndex([k \in 1..Len(kids) |-> 0 - t[kids[k]].visits])]
    IN  IF kids = <<>> THEN <<valid_cards[1], Frac(0, 1)>>
        ELSE <<t[best].action, NodeValue(t[best])>>

\* _mcts_search: (best_card, value) after the simulations
BestOfRoot(t, valid_cards) ==
    LET kids == t[1].children
        best == kids[FirstMaxIndex([k \in 1..Len(kids) |-> t[kids[k]].visits])]
    IN  IF kids = <<>> THEN <<valid_cards[1], Frac(0, 1)>>
        ELSE <<t[best].action, NodeValue(t[best])>>

\* _mcts_search: the tree after n iterations of the simulation loop, or the
\* exception one of them raised
RECURSIVE SimulationLoop(_, _, _, _)
SimulationLoop(t, s, p, n) ==
    IF n = 0 THEN [err |-> "none", tree |-> t]
    ELSE LET before == SimulationLoop(t, s, p, n - 1)
         IN  IF before.err # "none" THEN before
             ELSE LET r == Simulation(before.tree, s, p)
                  IN  [err |-> r.err, tree |-> r.tree]

\* _mcts_search with num_simulations = n
mcts_search(s, p, valid_cards, n) ==
    LET loop == SimulationLoop(RootTree(s, p, valid_cards), s, p, n)
    IN  IF loop.err # "none" THEN [err |-> loop.err, best |-> <<NoCard, Frac(0, 1)>>]
        ELSE [err |-> "none", best |-> BestOfRoot(loop.tree, valid_cards)]

\* play: action_values = {card: 0.0 for card in valid_cards}
RECURSIVE InitialActionValues(_)
InitialActionValues(valid_cards) ==
    IF valid_cards = <<>> THEN <<>>
    ELSE LET front == InitialActionValues(SubSeq(valid_cards, 1, Len(valid_cards) - 1))
             c == valid_cards[Len(valid_cards)]
         IN  IF \E i \in 1..Len(front) : front[i][1] = c THEN front
             ELSE Append(front, <<c, Frac(0, 1)>>)

\* mutant: the value is assigned, not added
AddValue_Overwrite(av, c, v) ==
    [i \in 1..Len(av) |-> IF av[i][1] = c THEN <<c, v>> ELSE av[i]]

\* play: action_values[best_card] += value
AddValue(av, c, v) ==
    [i \in 1..Len(av) |-> IF av[i][1] = c THEN <<c, FracAdd(av[i][2], v)>> ELSE av[i]]

\* play: max(action_values.keys(), key=...), the first key of the largest value
BestAction(av) ==
    LET j == CHOOSE i \in 1..Len(av) :
                /\ \A k \in 1..Len(av) : ~FracLess(av[i][2], av[k][2])
                /\ \A k \in 1..(i - 1) : FracLess(av[k][2], av[i][2])
    IN  av[j][1]

\* mutant: det_state is the caller's state itself
CallerStateAfter_Aliased(s, det) == det

\* the caller's state after _determinize_state assigned the sampled hands to
\* det_state, which is state.copy() with its own hands list
CallerStateAfter(s, det) == s

\* mutant: the root's untried_actions is the caller's list itself
CallerListAfterPop_Aliased(valid_cards, root_untried) == root_untried

\* the caller's valid_cards list after the search popped from the root's
\* untried_actions, which is a copy of it
CallerListAfterPop(valid_cards, root_untried) == valid_cards

----------------------------------------------------------------------------
(* MCTSAgent.play as the policy of the seat the control loop is asking *)

\* the shuffles the determinizer draws from the random stream
SeedKeys(len) == {k \in ShuffleKeys(len) : k[2] <= MaxSeedOffset}

Raised(e) == [kind |-> "raised", card |-> NoCard, err |-> e]
Returned(c) == [kind |-> "card", card |-> c, err |-> "none"]

\* MCTSAgent.__init__, WizardGame.__init__, and play_full_game about to hand
\* round round_counter + 1 (one of the first rounds, or the last) to _play_round
InitSearch ==
    /\ num_players \in {n \in MinPlayers..MaxPlayers : n <= MaxSeats}
    /\ round_counter \in (0..(MaxRound - 1)) \cup {total_rounds - 1}
    /\ scores = ScoresAfterRounds(round_counter, num_players)
    /\ state = NoState
    /\ pc = "new"
    /\ bidder = 0
    /\ trick_num = 0
    /\ turn = 0
    /\ led_suit = NoSuit
    /\ bid = NoBid
    /\ card = NoCard
    /\ error = "none"
    /\ call = NoCall
    /\ num_simulations \in 1..MaxSims
    /\ num_determinizations \in 1..MaxDets
    /\ SearchIdle

SearchPlayRound ==
    /\ s_pc = "idle"
    /\ Deal(SeedKeys(Len(create_standard_deck)))

SearchBid ==
    /\ s_pc = "idle"
    /\ Bid

\* cards are played on by any policy in the first rounds
SearchPlay ==
    /\ s_pc = "idle"
    /\ state.round_num <= MaxRound
    /\ Play

\* play is called (simulator.py, _play_trick); action_values is built
BeginPlay ==
    /\ pc = "play"
    /\ s_pc = "idle"
    /\ LET p == SeatOfTurn(state.trick_leader, turn, num_players)
           valid_cards == get_valid_plays(state.hands[p], led_suit)
       IN  /\ s_player' = p
           /\ s_valid' = valid_cards
           /\ action_values' = InitialActionValues(valid_cards)
    /\ s_pc' = "determinize"
    /\ det_count' = 0
    /\ reported' = <<>>
    /\ run' = 1
    /\ rng' = [seed |-> <<>>, pos |-> 1]
    /\ UNCHANGED <<gameVars, call, num_simulations, num_determinizations,
                   det_state, tree, sim_count, s_result, first_result>>

\* play: _determinize_state with the next shuffle of the stream, and the root
\* of _mcts_search
Determinize ==
    /\ s_pc = "determinize"
    /\ \E key \in (IF rng.pos <= Len(rng.seed) THEN {rng.seed[rng.pos]}
                   ELSE SeedKeys(Len(UnknownCards(state, s_player)))) :
         /\ det_state' = determinize_state(state, s_player, key)
         /\ tree' = RootTree(determinize_state(state, s_player, key), s_player, s_valid)
         /\ state' = CallerStateAfter(state, determinize_state(state, s_player, key))
         /\ rng' = [seed |-> IF rng.pos <= Len(rng.seed) THEN rng.seed
                             ELSE Append(rng.seed, key),
                    pos |-> rng.pos + 1]
    /\ sim_count' = 0
    /\ s_pc' = "simulate"
    /\ UNCHANGED <<num_players, scores, pc, round_counter, bidder, trick_num, turn,
                   led_suit, bid, card, error, call, num_simulations,
                   num_determinizations, s_player, s_valid, action_values, det_count,
                   reported, s_result, run, first_result>>

\* _mcts_search: one simulation (selection, expansion, evaluation,
\* backpropagation), or the exception it raises
Simulate ==
    /\ s_pc = "simulate"
    /\ LET r == Simulation(tree, det_state, s_player)
       IN  IF r.err # "none"
           THEN /\ s_pc' = "raised"
                /\ s_result' = Raised(r.err)
                /\ UNCHANGED <<tree, sim_count, s_valid>>
           ELSE /\ tree' = r.tree
                /\ sim_count' = sim_count + 1
                /\ s_valid' = CallerListAfterPop(s_valid, r.tree[1].untried_actions)
                /\ s_pc' = IF sim_count + 1 < num_simulations THEN "simulate"
                           ELSE "conclude"
                /\ s_result' = s_result
    /\ UNCHANGED <<gameVars, call, num_simulations, num_determinizations, s_player,
                   action_values, det_count, det_state, reported, rng, run,
                   first_result>>

\* _mcts_search returns its most visited root child; play adds the value to
\* action_values and, after the last determinization, returns the best card
Conclude ==
    /\ s_pc = "conclude"
    /\ IF tree[1].children = <<>> /\ s_valid = <<>>
       THEN /\ s_pc' = "raised"
            /\ s_result' = Raised("index")
            /\ UNCHANGED <<action_values, det_count, reported>>
       ELSE LET best == BestOfRoot(tree, s_valid)
                av == AddValue(action_values, best[1], best[2])
            IN  IF ~\E i \in 1..Len(action_values) : action_values[i][1] = best[1]
                THEN /\ s_pc' = "raised"
                     /\ s_result' = Raised("key")
                     /\ UNCHANGED <<action_values, det_count, reported>>
                ELSE /\ action_values' = av
                     /\ det_count' = det_count + 1
                     /\ reported' = Append(reported, best)
                     /\ IF det_count + 1 < num_determinizations
                        THEN /\ s_pc' = "determinize"
                             /\ s_result' = s_result
                        ELSE /\ s_pc' = "returned"
                             /\ s_result' = Returned(BestAction(av))
    /\ UNCHANGED <<gameVars, call, num_simulations, num_determinizations, s_player,
                   s_valid, det_state, tree, sim_count, rng, run, first_result>>

\* the stream is seeded again with the same seed and play is called again
\* with the same state and the same valid_cards list
PlayAgain ==
    /\ s_pc \in {"returned", "raised"}
    /\ run = 1
    /\ first_result' = s_result
    /\ run' = 2
    /\ rng' = [rng EXCEPT !.pos = 1]
    /\ action_values' = InitialActionValues(s_valid)
    /\ det_count' = 0
    /\ reported' = <<>>
    /\ s_result' = NoResult
    /\ s_pc' = "determinize"
    /\ UNCHANGED <<gameVars, call, num_simulations, num_determinizations, s_player,
                   s_valid, det_state, tree, sim_count>>

NextSearch ==
    \/ SearchPlayRound
    \/ SearchBid
    \/ SearchPlay
    \/ BeginPlay
    \/ Determinize
    \/ Simulate
    \/ Conclude
    \/ PlayAgain

SpecSearch == InitSearch /\ [][NextSearch]_vars

----------------------------------------------------------------------------
(* Direct calls of the rules engine *)

\* the cards handed to a direct call
CallCards ==
    {Card(JESTER, 0), Card(WIZARD, 0)}
    \cup {Card(OrdinarySuits[i], r) : i \in 1..Len(OrdinarySuits), r \in 1..MaxCallRank}

\* card lists a trick can hold: no ordinary card twice, no more Wizards or
\* Jesters than the deck has
IsTrickOfDeck(cs) ==
    /\ \A i, j \in 1..Len(cs) :
          (i # j /\ cs[i] = cs[j]) => cs[i].suit \in {WIZARD, JESTER}
    /\ Cardinality({i \in 1..Len(cs) : cs[i].suit = WIZARD}) <= NumWizards
    /\ Cardinality({i \in 1..Len(cs) : cs[i].suit = JESTER}) <= NumJesters

CallSuits == {OrdinarySuits[i] : i \in 1..Len(OrdinarySuits)} \cup {NoSuit}

\* the plays of a trick led by seat `leader` among Len(cs) seats
PlaysOf(cs, leader) ==
    [i \in 1..Len(cs) |-> <<SeatOfTurn(leader, i - 1, Len(cs)), cs[i]>>]

TrickWinnerCalls ==
    {[op |-> "trick_winner", plays |-> PlaysOf(cs, leader), led |-> l, trump |-> t,
      done |-> FALSE, result |-> 0] :
        cs \in {x \in UNION {[1..k -> CallCards] : k \in 1..MaxPlays} : IsTrickOfDeck(x)},
        leader \in {0, 1}, l \in CallSuits, t \in CallSuits}

InitRules ==
    /\ num_players = MinPlayers
    /\ round_counter = 0
    /\ scores = ScoresAfterRounds(0, MinPlayers)
    /\ state = NoState
    /\ pc = "rules"
    /\ bidder = 0
    /\ trick_num = 0
    /\ turn = 0
    /\ led_suit = NoSuit
    /\ bid = NoBid
    /\ card = NoCard
    /\ error = "none"
    /\ call \in TrickWinnerCalls
    /\ num_simulations = 1
    /\ num_determinizations = 1
    /\ SearchIdle

\* WizardRules.determine_trick_winner(cards_played, led_suit, trump_suit)
CallTrickWinner ==
    /\ call.op = "trick_winner"
    /\ ~call.done
    /\ call' = [call EXCEPT !.done = TRUE,
                            !.result = determine_trick_winner(call.plays, call.led, call.trump)]
    /\ UNCHANGED <<gameVars, searchVars>>

NextRules == CallTrickWinner

SpecRules == InitRules /\ [][NextRules]_vars

----------------------------------------------------------------------------
(* Properties of the rules engine *)

TrickWinnerReturned == call.op = "trick_winner" /\ call.done

HasWizard(plays) == \E i \in 1..Len(plays) : plays[i][2].suit = WIZARD

\* C9: when the plays hold a Wizard, trick_winner returns the seat of the first
\* Wizard in play order, whatever the other cards, the led suit and the trump
C9_FirstWizardWins ==
    (TrickWinnerReturned /\ HasWizard(call.plays)) =>
        \E i \in 1..Len(call.plays) :
            /\ call.plays[i][2].suit = WIZARD
            /\ \A k \in 1..(i - 1) : call.plays[k][2].suit # WIZARD
            /\ call.result = call.plays[i][1]

\* a trump and a higher led-suit card come before the first of two Wizards
C9_Witness ==
    /\ TrickWinnerReturned
    /\ Len(call.plays) = 3
    /\ call.plays[1][2] = Card(HEARTS, 2)
    /\ call.plays[2][2].suit = WIZARD
    /\ call.plays[3][2].suit = WIZARD
    /\ call.led = HEARTS
    /\ call.trump = HEARTS
    /\ call.result = call.plays[2][1]

\* C10: with no Wizard and a card of the trump suit among the plays,
\* trick_winner returns the seat of the highest trump-suit card, also when a
\* higher card of the led suit was played
C10_HighestTrumpWins ==
    (/\ TrickWinnerReturned
     /\ ~HasWizard(call.plays)
     /\ call.trump # NoSuit
     /\ \E i \in 1..Len(call.plays) : call.plays[i][2].suit = call.trump) =>
        \E i \in 1..Len(call.plays) :
            /\ call.plays[i][2].suit = call.trump
            /\ \A k \in 1..Len(call.plays) :
                  call.plays[k][2].suit = call.trump =>
                      call.plays[k][2].rank <= call.plays[i][2].rank
            /\ call.result = call.plays[i][1]

\* a low trump beats a higher card of the led suit
C10_Witness ==
    /\ TrickWinnerReturned
    /\ Len(call.plays) = 2
    /\ call.plays[1][2] = Card(HEARTS, 2)
    /\ call.plays[2][2] = Card(SPADES, 1)
    /\ call.led = HEARTS
    /\ call.trump = SPADES
    /\ call.result = call.plays[2][1]

\* C11: when every card of a non-empty list of plays is a Jester,
\* trick_winner returns the seat of the first entry
C11_AllJestersFirstWins ==
    (/\ TrickWinnerReturned
     /\ call.plays # <<>>
     /\ \A i \in 1..Len(call.plays) : call.plays[i][2].suit = JESTER) =>
        call.result = call.plays[1][1]

\* three Jesters, led by seat 1, with a trump suit
C11_Witness ==
    /\ TrickWinnerReturned
    /\ Len(call.plays) = 3
    /\ \A i \in 1..3 : call.plays[i][2].suit = JESTER
    /\ call.plays[1][1] = 1
    /\ call.trump = HEARTS
    /\ call.result = 1

----------------------------------------------------------------------------
(* Properties of the control loop *)

HandsEmpty(s) == \A p \in DOMAIN s.hands : s.hands[p] = <<>>

\* C1: a round that _play_round completes (every bid was in range and every
\* card legal) ends with every hand empty and the tricks won adding up to
\* round_num
C1_RoundEndsEmptyAndCounted ==
    pc = "round_done" =>
        /\ HandsEmpty(state)
        /\ SumOver(state.tricks_won, DOMAIN state.tricks_won) = state.round_num

C1_Witness ==
    /\ pc = "round_done"
    /\ state.round_num = MaxRound
    /\ HandsEmpty(state)
    /\ \E p, q \in Seats : state.tricks_won[p] > 0 /\ state.tricks_won[q] > 0 /\ p # q

\* C2: a returned card leaves the hand and joins current_trick only if it is
\* in valid_plays(hand, led suit); otherwise the round stops with an error,
\* the round state and the cumulative scores stay as they were, and no seat
\* is asked again
C2_PlayStep ==
    LET p == SeatOfTurn(state.trick_leader, turn, num_players)
        hand == state.hands[p]
        valid_cards == get_valid_plays(hand, led_suit)
    IN  IF InSeq(card', valid_cards)
        THEN /\ pc' # "error"
             /\ state'.hands[p] = RemoveFirst(hand, card')
             /\ \A q \in Seats \ {p} : state'.hands[q] = state.hands[q]
             /\ \/ state'.current_trick = Append(state.current_trick, <<p, card'>>)
                \/ /\ turn = num_players - 1
                   /\ trick_num + 1 < state.round_num
                   /\ state'.current_trick = <<>>
        ELSE /\ pc' = "error"
             /\ error' = "invalid_card"
             /\ state' = state
             /\ scores' = scores

C2_IllegalPlayRejected ==
    [][(pc = "play" => C2_PlayStep) /\ pc # "error"]_vars

C2_Witness ==
    /\ pc = "error"
    /\ error = "invalid_card"
    /\ turn = 1
    /\ InSeq(card, state.hands[SeatOfTurn(state.trick_leader, turn, num_players)])
    /\ Len(state.current_trick) = 1

\* C3: a bid outside [0, round_num] stops the round with an error, is not
\* recorded, and leaves the round state and the scores as they were; no seat
\* is asked again, and every bid that is set lies in [0, round_num]
C3_BidStep ==
    IF 0 <= bid' /\ bid' <= state.round_num
    THEN /\ pc' # "error"
         /\ state'.bids = [state.bids EXCEPT ![bidder] = bid']
    ELSE /\ pc' = "error"
         /\ error' = "invalid_bid"
         /\ state' = state
         /\ state'.bids[bidder] = NoBid
         /\ scores' = scores

SetBidsInRange ==
    \A p \in DOMAIN state.bids :
        state.bids[p] # NoBid => 0 <= state.bids[p] /\ state.bids[p] <= state.round_num

C3_InvalidBidAborts ==
    /\ []SetBidsInRange
    /\ [][(pc = "bid" => C3_BidStep) /\ pc # "error"]_vars

C3_Witness ==
    /\ pc = "error"
    /\ error = "invalid_bid"
    /\ bidder = 1
    /\ bid = state.round_num + 1
    /\ state.bids[0] # NoBid
    /\ state.bids[1] = NoBid

----------------------------------------------------------------------------
(* Properties of the search policy *)

\* det_state holds the output of _determinize_state for state and s_player
Sampled == s_pc \in {"simulate", "conclude", "returned", "raised"}

CountIn(c, s) == Cardinality({i \in 1..Len(s) : s[i] = c})

\* occurrences of card c in the hands, the current trick and the trump card
CardCount(s, c) ==
    SumOver([p \in DOMAIN s.hands |-> CountIn(c, s.hands[p])], DOMAIN s.hands)
    + Cardinality({i \in 1..Len(s.current_trick) : s.current_trick[i][2] = c})
    + (IF s.trump_card = c THEN 1 ELSE 0)

\* C4: play never raises, and the card it returns is in the valid_cards it
\* was given
C4_PlayReturnsLegalCard ==
    /\ s_pc # "raised"
    /\ s_pc = "returned" => InSeq(s_result.card, s_valid)

\* C5: every opponent's sampled hand is as long as that opponent's true hand
C5_SampledHandSizes ==
    Sampled =>
        \A q \in Seats \ {s_player} :
            Len(det_state.hands[q]) = Len(state.hands[q])

C7_ObservablesPreserved ==
    Sampled =>
        /\ det_state.hands[s_player] = state.hands[s_player]
        /\ det_state.current_trick = state.current_trick
        /\ det_state.trump_card = state.trump_card
        /\ det_state.trump_suit = state.trump_suit
        /\ det_state.bids = state.bids
        /\ det_state.tricks_won = state.tricks_won
        /\ det_state.trick_leader = state.trick_leader
        /\ DOMAIN det_state.hands = DOMAIN state.hands

C7_Witness ==
    /\ s_pc = "simulate"
    /\ state.current_trick # <<>>
    /\ state.trick_leader # 0
    /\ state.hands[s_player] # <<>>
    /\ \E q \in Seats \ {s_player} :
         /\ det_state.hands[q] # <<>>
         /\ det_state.hands[q] # state.hands[q]

----------------------------------------------------------------------------
(* Direct calls of valid_plays *)

\* only a rules function is called: no game is running, no search is deciding
NoGame ==
    /\ num_players = MinPlayers
    /\ round_counter = 0
    /\ scores = ScoresAfterRounds(0, MinPlayers)
    /\ state = NoState
    /\ pc = "rules"
    /\ bidder = 0
    /\ trick_num = 0
    /\ turn = 0
    /\ led_suit = NoSuit
    /\ bid = NoBid
    /\ card = NoCard
    /\ error = "none"
    /\ num_simulations = 1
    /\ num_determinizations = 1
    /\ SearchIdle

\* hands of 0 .. MaxHand cards of the deck, and the led suit of a trick (an
\* ordinary suit, or none)
ValidPlaysCalls ==
    {[op |-> "valid_plays", hand |-> h, led |-> l, done |-> FALSE, result |-> <<>>] :
        h \in {x \in UNION {[1..k -> CallCards] : k \in 0..MaxHand} : IsTrickOfDeck(x)},
        l \in CallSuits}

InitValidPlays ==
    /\ NoGame
    /\ call \in ValidPlaysCalls

\* WizardRules.get_valid_plays(hand, led_suit)
CallValidPlays ==
    /\ call.op = "valid_plays"
    /\ ~call.done
    /\ call' = [call EXCEPT !.done = TRUE,
                            !.result = get_valid_plays(call.hand, call.led)]
    /\ UNCHANGED <<gameVars, searchVars>>

NextValidPlays == CallValidPlays

SpecValidPlays == InitValidPlays /\ [][NextValidPlays]_vars

ValidPlaysReturned == call.op = "valid_plays" /\ call.done

HoldsSuit(hand, suit) == \E i \in 1..Len(hand) : hand[i].suit = suit

\* C12: valid_plays returns the whole hand when no suit is led or the hand
\* holds no card of the led suit; otherwise it returns the hand's cards of the
\* led suit and its Wizards and Jesters, each as often as the hand holds it,
\* and no other card. The result never holds a card more often than the hand
\* and is empty only for an empty hand.
C12_ValidPlays ==
    ValidPlaysReturned =>
        /\ (call.led = NoSuit \/ ~HoldsSuit(call.hand, call.led)) =>
                call.result = call.hand
        /\ (call.led # NoSuit /\ HoldsSuit(call.hand, call.led)) =>
                \A c \in CallCards :
                    CountIn(c, call.result) =
                        IF c.suit \in {call.led, WIZARD, JESTER}
                        THEN CountIn(c, call.hand) ELSE 0
        /\ \A c \in CallCards : CountIn(c, call.result) <= CountIn(c, call.hand)
        /\ \A i \in 1..Len(call.result) : call.result[i] \in CallCards
        /\ call.hand # <<>> => call.result # <<>>

\* a hand with a card of the led suit, a Wizard and a card of another suit
C12_Witness ==
    /\ ValidPlaysReturned
    /\ call.led = HEARTS
    /\ call.hand = <<Card(SPADES, 1), Card(WIZARD, 0), Card(HEARTS, 2)>>
    /\ call.result = <<Card(HEARTS, 2), Card(WIZARD, 0)>>

----------------------------------------------------------------------------
(* Direct calls of score_round *)

ScoreCalls ==
    {[op |-> "score_round", bid |-> b, tricks_won |-> w, done |-> FALSE, result |-> 0] :
        b \in 0..MaxScoreArg, w \in 0..MaxScoreArg}

InitScore ==
    /\ NoGame
    /\ call \in ScoreCalls

\* WizardRules.score_round(bid, tricks_won)
CallScoreRound ==
    /\ call.op = "score_round"
    /\ ~call.done
    /\ call' = [call EXCEPT !.done = TRUE,
                            !.result = score_round(call.bid, call.tricks_won)]
    /\ UNCHANGED <<gameVars, searchVars>>

NextScore == CallScoreRound

SpecScore == InitScore /\ [][NextScore]_vars

ScoreReturned == call.op = "score_round" /\ call.done

\* C13: score_round returns 20 + 10*bid when bid = tricks_won, and otherwise
\* minus ten times the distance between them, the same for tricks_won above
\* the bid as for tricks_won equally far below it
C13_ScoreRound ==
    ScoreReturned =>
        LET b == call.bid
            w == call.tricks_won
        IN  /\ b = w => call.result = 20 + 10 * b
            /\ b > w => call.result = -10 * (b - w)
            /\ b < w => call.result = -10 * (w - b)
            /\ (b < w /\ w - b <= b) => call.result = score_round(b, b - (w - b))

\* two tricks more than the bid of three
C13_Witness ==
    /\ ScoreReturned
    /\ call.bid = 3
    /\ call.tricks_won = 5
    /\ call.result = -20

----------------------------------------------------------------------------
(* Direct calls of shuffle_and_deal *)

\* every player count of the game and every round that fits the deck
DealCalls ==
    {[op |-> "deal", num_players |-> n, round_num |-> r, key |-> k,
      done |-> FALSE, shuffled |-> <<>>, result |-> <<>>] :
        n \in MinPlayers..MaxPlayers, r \in 1..(DeckTotal \div MinPlayers),
        k \in ShuffleKeys(Len(create_standard_deck))}

InitDeal ==
    /\ NoGame
    /\ call \in {c \in DealCalls : c.num_players * c.round_num <= DeckTotal}

\* Deck.shuffle_and_deal(num_players, round_num); shuffled is its local deck
\* after random.shuffle
CallDeal ==
    /\ call.op = "deal"
    /\ ~call.done
    /\ call' = [call EXCEPT !.done = TRUE,
                            !.shuffled = Shuffle(create_standard_deck, call.key),
                            !.result = shuffle_and_deal(call.num_players,
                                                        call.round_num, call.key)]
    /\ UNCHANGED <<gameVars, searchVars>>

NextDeal == CallDeal

SpecDeal == InitDeal /\ [][NextDeal]_vars

DealReturned == call.op = "deal" /\ call.done

\* C14: for 3 to 6 players and a round with num_players * round_num <= 60,
\* shuffle_and_deal returns num_players hands of exactly round_num cards, and a
\* trump card exactly when num_players * round_num < 60
C14_DealSizes ==
    DealReturned =>
        /\ DOMAIN call.result.hands = 0..(call.num_players - 1)
        /\ \A p \in DOMAIN call.result.hands :
              Len(call.result.hands[p]) = call.round_num
        /\ (call.result.trump_card # NoCard) <=>
              (call.num_players * call.round_num < DeckTotal)

\* the last round of four players: no trump card
C14_Witness ==
    /\ DealReturned
    /\ call.num_players = 4
    /\ call.round_num = 15
    /\ call.result.trump_card = NoCard
    /\ Len(call.result.hands[3]) = 15

\* the cards of a deal, hand after hand, then the trump card, then the rest
RECURSIVE HandsInOrder(_, _)
HandsInOrder(hands, n) ==
    IF n = 0 THEN <<>> ELSE HandsInOrder(hands, n - 1) \o hands[n - 1]

DealtCards(d, n) ==
    HandsInOrder(d.hands, n)
    \o (IF d.trump_card = NoCard THEN <<>> ELSE <<d.trump_card>>)
    \o d.remaining

\* C15: the deck is 4 Wizards, 4 Jesters and ranks 1..13 once in each of the 4
\* ordinary suits, 60 cards; a deal hands out every position of the shuffled
\* deck exactly once: player p's k-th card (from 0) is the card at position
\* k*num_players + p, the trump card is the next one, the remainder is what
\* follows, and together they hold every card as often as the deck does
C15_DealIsPartition ==
    /\ Len(create_standard_deck) = 60
    /\ CountIn(Card(WIZARD, 0), create_standard_deck) = 4
    /\ CountIn(Card(JESTER, 0), create_standard_deck) = 4
    /\ \A i \in 1..4, r \in 1..13 :
          CountIn(Card(OrdinarySuits[i], r), create_standard_deck) = 1
    /\ DealReturned =>
          LET n == call.num_players
              r == call.round_num
              d == call.result
          IN  /\ \A p \in 0..(n - 1), k \in 0..(r - 1) :
                    d.hands[p][k + 1] = call.shuffled[k * n + p + 1]
              /\ n * r < 60 => d.trump_card = call.shuffled[n * r + 1]
              /\ d.remaining = SubSeq(call.shuffled, n * r + 2, 60)
              /\ Len(DealtCards(d, n)) = 60
              /\ \A c \in SetOfSeq(create_standard_deck) \cup SetOfSeq(DealtCards(d, n)) :
                    CountIn(c, DealtCards(d, n)) = CountIn(c, create_standard_deck)

\* five players in round 3 with a shuffle that moves the top card
C15_Witness ==
    /\ DealReturned
    /\ call.num_players = 5
    /\ call.round_num = 3
    /\ call.shuffled[1] # create_standard_deck[1]
    /\ call.result.hands[2][3] = call.shuffled[13]
    /\ Len(call.result.remaining) = 44

----------------------------------------------------------------------------
(* play_full_game with policies that return in-range bids and legal cards *)

\* the shuffles of a game: the explored ones in rounds 1 .. MaxRound, one
\* fixed shuffle per round after that
GameKeys(r) ==
    IF r <= MaxRound THEN SeedKeys(Len(create_standard_deck))
    ELSE {<<7, r>>}

\* the bids of the policies: either end of the range in rounds 1 .. MaxRound,
\* 0 after that
GameBids(r) == IF r <= MaxRound THEN {0, r} ELSE {0}

InitGame ==
    /\ num_players \in {n \in MinPlayers..MaxPlayers : n <= MaxSeats}
    /\ round_counter = 0
    /\ scores = [p \in Seats |-> 0]
    /\ state = NoState
    /\ pc = "new"
    /\ bidder = 0
    /\ trick_num = 0
    /\ turn = 0
    /\ led_suit = NoSuit
    /\ bid = NoBid
    /\ card = NoCard
    /\ error = "none"
    /\ call = NoCall
    /\ num_simulations = 1
    /\ num_determinizations = 1
    /\ SearchIdle

GamePlayRound == Deal(GameKeys(round_counter + 1))

GameBid ==
    /\ Bid
    /\ bid' \in GameBids(state.round_num)

\* any legal card in rounds 1 .. MaxRound, the first legal card after that
GamePlay ==
    /\ Play
    /\ InSeq(card', get_valid_plays(
                  state.hands[SeatOfTurn(state.trick_leader, turn, num_players)],
                  led_suit))
    /\ \/ state.round_num <= MaxRound
       \/ card' = get_valid_plays(
                      state.hands[SeatOfTurn(state.trick_leader, turn, num_players)],
                      led_suit)[1]

\* play_full_game: _play_round returned and the loop goes on
GameNextRound ==
    /\ pc = "round_done"
    /\ round_counter < total_rounds
    /\ pc' = "new"
    /\ UNCHANGED <<num_players, scores, state, round_counter, bidder, trick_num,
                   turn, led_suit, bid, card, error, call, searchVars>>

\* play_full_game: the loop is over, self.scores is returned
GameReturn ==
    /\ pc = "round_done"
    /\ round_counter >= total_rounds
    /\ pc' = "game_over"
    /\ UNCHANGED <<num_players, scores, state, round_counter, bidder, trick_num,
                   turn, led_suit, bid, card, error, call, searchVars>>

NextGame ==
    \/ GamePlayRound
    \/ GameBid
    \/ GamePlay
    \/ GameNextRound
    \/ GameReturn

SpecGame == InitGame /\ [][NextGame]_vars

\* the loops of play_full_game, _play_round and _play_trick run on without
\* waiting for anything but the policies, which return
SpecGameFair == SpecGame /\ WF_vars(NextGame)

\* a round is being played or has been played: its round_num is the loop
\* counter, it fits the deck, and it has no trump card exactly when it is the
\* last round
RoundFitsDeck ==
    state # NoState =>
        /\ state.round_num = round_counter
        /\ 1 <= state.round_num /\ state.round_num <= 60 \div num_players
        /\ num_players * state.round_num <= 60
        /\ (state.trump_card = NoCard) <=> (state.round_num = 60 \div num_players)

GameReturned ==
    pc = "game_over" =>
        /\ round_counter = 60 \div num_players
        /\ DOMAIN scores = 0..(num_players - 1)
        /\ \A p \in DOMAIN scores : scores[p] \in Int

RoundsInOrder ==
    \/ round_counter' = round_counter
    \/ /\ round_counter' = round_counter + 1
       /\ state'.round_num = round_counter + 1
       /\ pc \in {"new"}

\* C16: with policies that return in-range bids and legal cards,
\* play_full_game ends without an error after exactly 60 \div num_players
\* rounds, played with round_num 1, 2, ... in that order, and returns one
\* integer score per player; every round fits the deck and only the last one
\* has no trump card
C16_FullGameTerminates ==
    /\ <>(pc = "game_over")
    /\ [](pc # "error")
    /\ []RoundFitsDeck
    /\ []GameReturned
    /\ [][RoundsInOrder]_vars

C16_Witness ==
    /\ pc = "game_over"
    /\ round_counter = 60 \div num_players
    /\ state.round_num = 60 \div num_players
    /\ state.trump_card = NoCard
    /\ \E p, q \in Seats : scores[p] < 0 /\ scores[q] # scores[p]

----------------------------------------------------------------------------
(* Properties of the trick loop *)

InRound == state # NoState

\* C17: in every state of a round the cards in the hands, the cards in
\* current_trick and the cards of the tricks already counted in tricks_won
\* add up to num_players * round_num
C17_CardsConserved ==
    InRound =>
        SumOver([p \in Seats |-> Len(state.hands[p])], Seats)
        + Len(state.current_trick)
        + num_players * SumOver(state.tricks_won, Seats)
        = num_players * state.round_num

\* the suit of the first card of a trick that is neither Wizard nor Jester
FirstSuitPlayed(trick) ==
    LET ordinary == {i \in 1..Len(trick) : trick[i][2].suit \notin {WIZARD, JESTER}}
    IN  IF ordinary = {} THEN NoSuit
        ELSE trick[CHOOSE i \in ordinary : \A j \in ordinary : i <= j][2].suit

\* C18: at every point of a trick led_suit is the suit of the first card
\* played in it that is neither Wizard nor Jester, in whatever position, and
\* is undefined only while no such card has been played
C18_LedSuitIsFirstSuit ==
    (InRound /\ pc \in {"play", "round_done"}) =>
        led_suit = FirstSuitPlayed(state.current_trick)

\* the card the seat played into the trick
CardOfSeat(trick, p) ==
    trick[CHOOSE i \in 1..Len(trick) : trick[i][1] = p][2]

\* C19: the seat that won a resolved trick played a Jester only if every
\* card of the trick is a Jester
C19_JesterWinsOnlyAmongJesters ==
    (InRound /\ pc = "round_done") =>
        (CardOfSeat(state.current_trick, state.trick_leader).suit = JESTER =>
            \A i \in 1..Len(state.current_trick) :
                state.current_trick[i][2].suit = JESTER)

\* the entries of current_trick are those of seats trick_leader,
\* trick_leader + 1, ... in that order, no seat twice; seat 0 leads the first
\* trick; trick_leader is a seat
TurnOrder ==
    InRound =>
        /\ state.trick_leader \in 0..(num_players - 1)
        /\ Len(state.current_trick) <= num_players
        /\ \A i, j \in 1..Len(state.current_trick) :
              i # j => state.current_trick[i][1] # state.current_trick[j][1]
        /\ (pc = "bid" \/ (pc = "play" /\ trick_num = 0)) => state.trick_leader = 0
        /\ pc = "play" =>
              \A i \in 1..Len(state.current_trick) :
                  state.current_trick[i][1]
                      = (state.trick_leader + (i - 1)) % num_players

\* a card is taken from the seat whose turn it is, and the seat credited with
\* a finished trick leads the next one
TurnStep ==
    (pc = "play" /\ pc' # "error") =>
        LET p == (state.trick_leader + Len(state.current_trick)) % num_players
        IN  /\ Len(state'.hands[p]) = Len(state.hands[p]) - 1
            /\ \A q \in Seats \ {p} : state'.hands[q] = state.hands[q]
            /\ IF Len(state.current_trick) + 1 < num_players
               THEN /\ state'.current_trick = Append(state.current_trick, <<p, card'>>)
                    /\ state'.trick_leader = state.trick_leader
                    /\ state'.tricks_won = state.tricks_won
               ELSE state'.tricks_won =
                        [state.tricks_won EXCEPT ![state'.trick_leader] = @ + 1]

\* C20: in every trick the seats are asked in cyclic order from trick_leader,
\* each once; current_trick never holds more than num_players entries nor two
\* of one seat; seat 0 leads the first trick of a round and the winner of a
\* trick leads the next; trick_leader is always a seat
C20_TurnOrder ==
    /\ []TurnOrder
    /\ [][TurnStep]_vars

\* the second trick of a round, led by seat 2, with seat 0 asked second
C20_Witness ==
    /\ pc = "play"
    /\ trick_num = 1
    /\ state.trick_leader = 2
    /\ Len(state.current_trick) = 2
    /\ state.current_trick[1][1] = 2
    /\ state.current_trick[2][1] = 0
    /\ state.tricks_won[2] = 1

----------------------------------------------------------------------------
(* Properties of trick counting, bidding order and scoring *)

\* the tricks counted so far are the completed tricks, at most round_num
TricksCounted ==
    InRound =>
        /\ SumOver(state.tricks_won, Seats) = trick_num
        /\ trick_num <= state.round_num

\* a card that completes a trick adds one to tricks_won of the seat
\* trick_winner returns for the full trick, a seat that played in it; any
\* other step leaves tricks_won alone
TrickStep ==
    IF pc = "play" /\ pc' # "error" /\ Len(state.current_trick) + 1 = num_players
    THEN LET p == SeatOfTurn(state.trick_leader, turn, num_players)
             trick == Append(state.current_trick, <<p, card'>>)
             w == determine_trick_winner(trick, NextLedSuit(led_suit, turn, card'),
                                         state.trump_suit)
         IN  /\ \E i \in 1..Len(trick) : trick[i][1] = w
             /\ state'.tricks_won[w] = state.tricks_won[w] + 1
             /\ \A q \in Seats \ {w} : state'.tricks_won[q] = state.tricks_won[q]
    ELSE (InRound /\ pc # "new") => state'.tricks_won = state.tricks_won

\* C21: each completed trick adds exactly 1 to tricks_won of exactly one
\* seat, the seat trick_winner returns, which played in the trick; the sum of
\* tricks_won is the number of completed tricks and never exceeds round_num
C21_OneTrickOneCount ==
    /\ []TricksCounted
    /\ [][TrickStep]_vars

\* a round of two tricks won by seats 1 and 2
C21_Witness ==
    /\ pc = "round_done"
    /\ state.round_num = 2
    /\ trick_num = 2
    /\ state.tricks_won[0] = 0
    /\ state.tricks_won[1] = 1
    /\ state.tricks_won[2] = 1

\* while bids are asked for, seats 0 .. bidder-1 have bid and the others have
\* not, nothing has been played, and the seat asked is handed its own hand
\* and exactly the bids of the seats before it; once cards are played every
\* bid is set
BidOrder ==
    InRound =>
        /\ pc = "bid" =>
              /\ bidder \in Seats
              /\ \A q \in Seats : (state.bids[q] # NoBid) <=> (q < bidder)
              /\ state.current_trick = <<>>
              /\ \A q \in Seats : Len(state.hands[q]) = state.round_num
              /\ BidArgs(state, bidder).hand = state.hands[bidder]
              /\ Len(BidArgs(state, bidder).bids_so_far) = bidder
              /\ \A q \in 0..(bidder - 1) :
                    /\ BidArgs(state, bidder).bids_so_far[q + 1] = state.bids[q]
                    /\ state.bids[q] # NoBid
        /\ pc \in {"play", "round_done"} =>
              \A q \in Seats : state.bids[q] # NoBid
        /\ (state.current_trick # <<>> \/ trick_num > 0) =>
              \A q \in Seats : state.bids[q] # NoBid

\* an accepted bid is recorded for the seat asked and the next seat is asked;
\* a bid that is set stays as it is
BidStep ==
    /\ (pc = "bid" /\ pc' # "error") =>
          /\ state'.bids = [state.bids EXCEPT ![bidder] = bid']
          /\ bidder' = bidder + 1
          /\ state'.hands = state.hands
    /\ (InRound /\ pc # "new") =>
          \A q \in Seats : state.bids[q] # NoBid => state'.bids[q] = state.bids[q]

\* C22: in a round each seat is asked for a bid once, in seat order; the seat
\* asked is given its own hand and exactly the bids of the seats before it;
\* no card is played before every bid is set, and a set bid never changes
C22_BiddingOrder ==
    /\ []BidOrder
    /\ [][BidStep]_vars

\* the last seat is asked, after seat 0 bid 0 and seat 1 bid 2 in round 2
C22_Witness ==
    /\ pc = "bid"
    /\ bidder = 2
    /\ state.round_num = 2
    /\ BidArgs(state, bidder).bids_so_far = <<0, 2>>
    /\ state.bids[2] = NoBid

\* the cumulative scores change only in the step that ends a round, after its
\* last trick, and then by the round score of each player
ScoreStep ==
    IF pc = "play" /\ pc' = "round_done"
    THEN /\ trick_num' = state'.round_num
         /\ \A p \in Seats :
               scores'[p] = scores[p] + score_round(state'.bids[p], state'.tricks_won[p])
    ELSE scores' = scores

\* a round ends in the scoring step and in no other way
ScoredOncePerRound ==
    /\ pc' = "round_done" => pc \in {"play", "round_done"}
    /\ (pc = "round_done" /\ pc' # "round_done") => pc' \in {"new", "game_over"}

\* C23: the cumulative scores start at 0 and change only in the scoring step
\* at the end of a round, once per round, each by score_round(bid,
\* tricks_won) of its player; the scores returned are those sums
C23_ScoresChangeOnlyInScoring ==
    /\ (pc = "new" /\ round_counter = 0) => \A p \in Seats : scores[p] = 0
    /\ [][ScoreStep /\ ScoredOncePerRound]_vars

\* after the second round: one seat made both bids, another missed
C23_Witness ==
    /\ pc = "round_done"
    /\ round_counter = 2
    /\ \E p, q \in Seats : scores[p] >= 50 /\ scores[q] < 0

----------------------------------------------------------------------------
(* Properties of the search tree *)

\* the node and its ancestors, following parent up to the root
RECURSIVE ParentChain(_, _)
ParentChain(t, ni) ==
    IF ni = 0 THEN {} ELSE {ni} \cup ParentChain(t, t[ni].parent)

VisitsIn(t, i) == IF i <= Len(t) THEN t[i].visits ELSE 0
TotalIn(t, i) == IF i <= Len(t) THEN t[i].total_value ELSE 0

\* a simulation that does not raise
SimulationDone == s_pc = "simulate" /\ s_pc' # "raised" /\ tree' # tree

\* the nodes from the reached node up to the root gain one visit and the
\* reward, every other node keeps its visits and its value
BackpropStep ==
    SimulationDone =>
        \E node \in 1..Len(tree') :
            /\ node = Simulation(tree, det_state, s_player).node
            /\ 1 \in ParentChain(tree', node)
            /\ \A i \in 1..Len(tree') :
                  IF i \in ParentChain(tree', node)
                  THEN /\ tree'[i].visits = VisitsIn(tree, i) + 1
                       /\ tree'[i].total_value
                            = TotalIn(tree, i) + simulate(det_state, s_player)
                  ELSE /\ tree'[i].visits = VisitsIn(tree, i)
                       /\ tree'[i].total_value = TotalIn(tree, i)

\* C24: a simulation adds one visit and its reward to exactly the nodes on
\* the parent chain from the reached node to the root, and leaves the visits
\* and the value of every other node unchanged
C24_BackpropagationChain ==
    [][BackpropStep]_vars

\* three simulations: two children of the root and a grandchild
C24_Witness ==
    /\ s_pc \in {"simulate", "conclude"}
    /\ sim_count = 3
    /\ Len(tree) = 4
    /\ tree[1].visits = 3
    /\ tree[4].parent = 2
    /\ tree[4].visits = 1
    /\ tree[2].visits = 2
    /\ tree[3].visits = 1

\* the legal actions node i was created with: valid_cards for the root, the
\* deciding player's hand in the node's state for every other node
CreatedWith(t, i) ==
    IF i = 1 THEN s_valid ELSE t[i].state.hands[t[i].player_idx]

\* the actions of the children of node i, in the order of their creation
ChildActions(t, i) == [k \in 1..Len(t[i].children) |-> t[t[i].children[k]].action]

HasTree == tree # <<>> /\ s_pc \in {"simulate", "conclude", "returned", "raised"}

\* children and untried actions together are the actions the node was created
\* with, card by card; a child's state is its parent's state with the child's
\* action removed from the deciding player's hand
ExpansionShape ==
    HasTree =>
        \A i \in 1..Len(tree) :
            /\ Len(tree[i].children) + Len(tree[i].untried_actions)
                  = Len(CreatedWith(tree, i))
            /\ \A c \in SetOfSeq(CreatedWith(tree, i))
                        \cup SetOfSeq(ChildActions(tree, i))
                        \cup SetOfSeq(tree[i].untried_actions) :
                  CountIn(c, ChildActions(tree, i)) + CountIn(c, tree[i].untried_actions)
                      = CountIn(c, CreatedWith(tree, i))
            /\ \A k \in 1..Len(tree[i].children) :
                  LET ch == tree[tree[i].children[k]]
                      p == tree[i].player_idx
                  IN  /\ ch.parent = i
                      /\ ch.state.hands[p] = RemoveFirst(tree[i].state.hands[p], ch.action)
                      /\ ch.state = [tree[i].state EXCEPT !.hands[p] = ch.state.hands[p]]

\* a simulation adds at most one node, under a node that had an untried
\* action, and reaches its node through fully expanded nodes only
ExpansionStep ==
    SimulationDone =>
        LET node == Simulation(tree, det_state, s_player).node
            through == ParentChain(tree', node) \ {node}
        IN  /\ Len(tree') \in {Len(tree), Len(tree) + 1}
            /\ Len(tree') = Len(tree) + 1 =>
                  /\ node = Len(tree')
                  /\ tree[tree'[node].parent].untried_actions # <<>>
                  /\ tree'[node].action
                       = tree[tree'[node].parent].untried_actions[
                             Len(tree[tree'[node].parent].untried_actions)]
                  /\ Len(tree'[tree'[node].parent].untried_actions)
                       = Len(tree[tree'[node].parent].untried_actions) - 1
            /\ \A i \in through :
                  i # tree'[node].parent \/ Len(tree') = Len(tree) =>
                      tree[i].untried_actions = <<>>

\* C25: for every node the children and the untried actions together are the
\* legal actions the node was created with; each untried action gives one
\* child, with that card as action and the parent's state less that card; and
\* selection descends only through nodes with no untried action
C25_ExpansionExhaustsActions ==
    /\ []ExpansionShape
    /\ [][ExpansionStep]_vars

\* a root with both cards tried and a first child with its one card tried
C25_Witness ==
    /\ s_pc = "conclude"
    /\ Len(s_valid) = 2
    /\ tree[1].untried_actions = <<>>
    /\ ChildActions(tree, 1) = <<s_valid[2], s_valid[1]>>
    /\ tree[2].untried_actions = <<>>
    /\ ChildActions(tree, 2) = <<s_valid[1]>>
    /\ s_valid[1] # s_valid[2]

\* selection evaluates UCB1 on the children of node i when it passes i: the
\* node has children, no untried action, and cards left in some hand
SelectsAmongChildren(t, i) ==
    /\ t[i].children # <<>>
    /\ t[i].untried_actions = <<>>
    /\ \E p \in DOMAIN t[i].state.hands : t[i].state.hands[p] # <<>>

\* C26: whenever selection evaluates UCB1 on the children of a node, every
\* child has at least one visit and the node has at least one visit and at
\* least as many as each child, so nothing is divided by zero and no
\* logarithm of zero is taken
C26_UCB1WellDefined ==
    /\ s_result.err # "math_domain"
    /\ HasTree =>
          \A i \in 1..Len(tree) :
              SelectsAmongChildren(tree, i) =>
                  \A k \in 1..Len(tree[i].children) :
                      /\ tree[tree[i].children[k]].visits >= 1
                      /\ tree[i].visits >= 1
                      /\ tree[i].visits >= tree[tree[i].children[k]].visits

\* the next simulation compares the UCB1 of two root children visited once
C26_Witness ==
    /\ s_pc = "simulate"
    /\ sim_count = 2
    /\ SelectsAmongChildren(tree, 1)
    /\ Len(tree[1].children) = 2
    /\ tree[1].visits = 2
    /\ tree[2].visits = 1
    /\ tree[3].visits = 1
    /\ UCB1Milli(tree[2], tree[1].visits) = UCB1Milli(tree[3], tree[1].visits)

----------------------------------------------------------------------------
(* Properties of the reported and the returned action *)

\* a determinization has just been searched and its result reported
JustReported == s_pc \in {"determinize", "returned"} /\ reported # <<>>

LastReported == reported[Len(reported)]

\* C27: the action reported for a determinization is the action of a root
\* child with the most visits among the root children, and the value
\* reported with it is that child's total_value divided by its visits
C27_MostVisitedReported ==
    JustReported =>
        \E k \in 1..Len(tree[1].children) :
            LET ch == tree[tree[1].children[k]]
            IN  /\ ch.action = LastReported[1]
                /\ \A j \in 1..Len(tree[1].children) :
                      tree[tree[1].children[j]].visits <= ch.visits
                /\ ch.visits > 0
                /\ LastReported[2].num * ch.visits
                      = ch.total_value * LastReported[2].den

\* three simulations: the child visited twice is reported, not the one
\* visited once
C27_Witness ==
    /\ JustReported
    /\ num_simulations = 3
    /\ Len(tree[1].children) = 2
    /\ tree[2].visits = 2
    /\ tree[3].visits = 1
    /\ LastReported[1] = tree[2].action
    /\ tree[2].action # tree[3].action
    /\ LastReported[2].num # 0

\* the sum of the values reported for card c in the first k determinizations
RECURSIVE ReportedSum(_, _)
ReportedSum(c, k) ==
    IF k = 0 THEN Frac(0, 1)
    ELSE IF reported[k][1] = c THEN FracAdd(ReportedSum(c, k - 1), reported[k][2])
    ELSE ReportedSum(c, k - 1)

FracEq(a, b) == a.num * b.den = b.num * a.den

\* the entry of action_values for card c
ValueOf(c) ==
    action_values[CHOOSE i \in 1..Len(action_values) : action_values[i][1] = c][2]

\* C28: when play returns, action_values holds for every legal card the sum
\* of the values reported for it over the determinizations, and the card
\* returned is a legal card whose sum is not below that of any legal card
C28_HighestSumReturned ==
    (s_pc = "returned" /\ s_result.kind = "card") =>
        /\ Len(reported) = num_determinizations
        /\ InSeq(s_result.card, s_valid)
        /\ \A c \in SetOfSeq(s_valid) :
              /\ \E i \in 1..Len(action_values) : action_values[i][1] = c
              /\ FracEq(ValueOf(c), ReportedSum(c, Len(reported)))
              /\ ~FracLess(ValueOf(s_result.card), ValueOf(c))

\* two determinizations report the same card with a positive value, and
\* that card is returned over another legal card
C28_Witness ==
    /\ s_pc = "returned"
    /\ num_determinizations = 2
    /\ Len(s_valid) = 2
    /\ reported[1][1] = reported[2][1]
    /\ reported[1][2].num > 0
    /\ s_result.card = reported[1][1]
    /\ FracLess(reported[1][2], ValueOf(s_result.card))

Observed(s, p) ==
    SetOfSeq(s.hands[p])
    \cup {s.current_trick[i][2] : i \in 1..Len(s.current_trick)}
    \cup (IF s.trump_card # NoCard THEN {s.trump_card} ELSE {})

\* C30: when the determinizer draws, every card of the deck that is neither in
\* the deciding player's hand, nor played, nor the trump card is in the pool
\* of unseen cards; in particular the cards the opponents really hold are
C30_PoolIsUnseenCards ==
    (s_pc = "determinize") =>
        \A q \in DOMAIN state.hands \ {s_player} :
            \A i \in 1..Len(state.hands[q]) :
                (state.hands[q][i] \notin Observed(state, s_player))
                    => InSeq(state.hands[q][i], UnknownCards(state, s_player))

----------------------------------------------------------------------------
(* Visit counts of the search tree *)

\* the sum of the visits of the first k children of node i of t, taken in
\* the tree u (a child that u does not have yet counts 0)
RECURSIVE ChildVisits(_, _, _, _)
ChildVisits(t, u, i, k) ==
    IF k = 0 THEN 0
    ELSE ChildVisits(t, u, i, k - 1) + VisitsIn(u, t[i].children[k])

\* the visits of node i that are not visits of its children
OwnVisits(t, i) == t[i].visits - ChildVisits(t, t, i, Len(t[i].children))

\* inside one search: the root has one visit per completed simulation, no
\* node has fewer visits than its children together, and every other node
\* has been visited
VisitCounts ==
    (tree # <<>> /\ s_pc \in {"simulate", "conclude"}) =>
        /\ tree[1].visits = sim_count
        /\ \A i \in 1..Len(tree) : OwnVisits(tree, i) >= 0
        /\ \A i \in 2..Len(tree) : tree[i].visits >= 1

\* a completed simulation raises by one the visits that are a node's own at
\* the node where it ended, and at no other node
EndedAtStep ==
    SimulationDone =>
        LET node == Simulation(tree, det_state, s_player).node
            Before(i) == VisitsIn(tree, i)
                         - ChildVisits(tree', tree, i, Len(tree'[i].children))
        IN  \A i \in 1..Len(tree') :
                OwnVisits(tree', i) = Before(i) + (IF i = node THEN 1 ELSE 0)

\* C31: after every completed simulation of a search the root's visits equal
\* the number of completed simulations, every node's visits are the sum of
\* its children's visits plus the simulations that ended at it (each
\* simulation adds one to that difference at its end node only, starting
\* from a root with no visits), and every node but the root has a visit
C31_VisitBookkeeping ==
    []VisitCounts /\ [][EndedAtStep]_vars

\* four simulations grew a tree of five nodes with a grandchild of the root;
\* the root's four visits are all its children's
C31_Witness ==
    /\ s_pc = "conclude"
    /\ sim_count = 4
    /\ Len(tree) = 5
    /\ tree[1].visits = 4
    /\ OwnVisits(tree, 1) = 0
    /\ \E i \in 2..Len(tree) :
          /\ tree[i].parent # 1
          /\ OwnVisits(tree, tree[i].parent) = 1
          /\ OwnVisits(tree, i) = 1

----------------------------------------------------------------------------
(* Simulated actions and rewards *)

\* the reward of the deciding seat in the true state
TrueReward == score_round(state.bids[s_player], state.tricks_won[s_player])

\* node i of the tree differs from the sampled state only in the deciding
\* seat's hand, and from its parent only by the card of its action
OnlyOwnCardRemoved(t, i) ==
    /\ t[i].state.bids = state.bids
    /\ t[i].state.tricks_won = state.tricks_won
    /\ t[i].state.current_trick = state.current_trick
    /\ t[i].state.trick_leader = state.trick_leader
    /\ \A q \in DOMAIN det_state.hands \ {s_player} :
          t[i].state.hands[q] = det_state.hands[q]
    /\ IF t[i].parent = 0 THEN t[i].state.hands[s_player] = state.hands[s_player]
       ELSE /\ InSeq(t[i].action, t[t[i].parent].state.hands[s_player])
            /\ t[i].state.hands[s_player]
                 = RemoveFirst(t[t[i].parent].state.hands[s_player], t[i].action)

\* every node carries its visits times the reward of the true state
SameRewardEverywhere ==
    HasTree =>
        \A i \in 1..Len(tree) :
            /\ OnlyOwnCardRemoved(tree, i)
            /\ tree[i].total_value = tree[i].visits * TrueReward

\* play: the card returned once the determinizations reported bests
RECURSIVE ActionValuesAfter(_, _)
ActionValuesAfter(bests, k) ==
    IF k = 0 THEN InitialActionValues(s_valid)
    ELSE AddValue(ActionValuesAfter(bests, k - 1), bests[k][1], bests[k][2])

\* whatever shuffle the determinizer draws, its search reports what every
\* determinization of this decision reported, and the card returned is the
\* one those reports give
SampleIndependent ==
    (s_pc = "returned" /\ s_result.kind = "card") =>
        /\ \A key \in SeedKeys(Len(UnknownCards(state, s_player))) :
              LET o == mcts_search(determinize_state(state, s_player, key),
                                   s_player, s_valid, num_simulations)
              IN  /\ o.err = "none"
                  /\ \A k \in 1..Len(reported) : reported[k] = o.best
        /\ s_result.card = BestAction(ActionValuesAfter(reported, Len(reported)))

\* C32: a simulated action removes one card from the deciding player's hand
\* and changes nothing else of the state, so every node's accumulated value
\* is its visit count times score_round of the deciding player's bid and
\* tricks_won in the true state, and the card returned is the same for
\* every sample of the opponents' hands
C32_RewardIsConstant ==
    SameRewardEverywhere /\ SampleIndependent

\* two determinizations drew different shuffles and sampled different
\* opponent hands; both searches visited a child twice and reported the same
C32_Witness ==
    /\ s_pc = "returned"
    /\ s_result.kind = "card"
    /\ Len(reported) = 2
    /\ Len(rng.seed) = 2
    /\ rng.seed[1] # rng.seed[2]
    /\ determinize_state(state, s_player, rng.seed[1]).hands
         # determinize_state(state, s_player, rng.seed[2]).hands
    /\ Len(s_valid) = 2
    /\ TrueReward # 0
    /\ \E i \in 2..Len(tree) : tree[i].visits = 2 /\ tree[i].parent = 1
    /\ \E i \in 2..Len(tree) :
          Len(tree[i].state.hands[s_player]) = Len(state.hands[s_player]) - 2

----------------------------------------------------------------------------
(* The returned card and the reported cards *)

\* C33: the card play returns is the card that at least one of the
\* determinizations reported as its most visited action
C33_ReturnedCardWasReported ==
    (s_pc = "returned" /\ s_result.kind = "card") =>
        \E k \in 1..Len(reported) : reported[k][1] = s_result.card

====
